---- MODULE Spec2Model ----
(***************************************************************************)
(* A model of simulation.py: the compartmental epidemic simulator.         *)
(*                                                                         *)
(* Pool, Pool_Group and Simulation are modelled field by field.  The       *)
(* counts and rates are Python floats used as real numbers; they are       *)
(* modelled as exact rationals <<n, d>> in lowest terms with d > 0, so     *)
(* that equality of two values is equality of the tuples.                  *)
(*                                                                         *)
(* Simulation.step() is modelled statement by statement: one action per    *)
(* loop iteration or call, sequenced by pc and the loop index idx.         *)
(***************************************************************************)
EXTENDS Integers, Sequences, FiniteSets, TLC

\* ------------------------------------------------------------------------
\* Exact arithmetic of the counts and rates.

Abs(x) == IF x < 0 THEN -x ELSE x

RECURSIVE GCD(_, _)
GCD(a, b) == IF b = 0 THEN a ELSE GCD(b, a % b)

\* The rational n/d (d # 0) in lowest terms, sign carried by the numerator.
Norm(n, d) ==
    LET g == GCD(Abs(n), Abs(d))
        s == IF d < 0 THEN -1 ELSE 1
    IN  <<(s * n) \div g, (s * d) \div g>>

Zero == <<0, 1>>
One == <<1, 1>>

\* The operations cancel common factors before they multiply.
RAdd(a, b) ==
    LET g == GCD(a[2], b[2])
    IN  Norm(a[1] * (b[2] \div g) + b[1] * (a[2] \div g), (a[2] \div g) * b[2])
RNeg(a) == <<-a[1], a[2]>>
RSub(a, b) == RAdd(a, RNeg(b))
RMul(a, b) ==
    LET g1 == GCD(Abs(a[1]), b[2])
        g2 == GCD(Abs(b[1]), a[2])
    IN  <<(a[1] \div g1) * (b[1] \div g2), (a[2] \div g2) * (b[2] \div g1)>>
\* a / b for b # 0; the callers raise ZeroDivisionError before dividing by 0.
RDiv(a, b) == RMul(a, IF b[1] < 0 THEN <<-b[2], -b[1]>> ELSE <<b[2], b[1]>>)
RLt(a, b) == RSub(a, b)[1] < 0
RLeq(a, b) == RSub(a, b)[1] <= 0
\* Python's min(a, b): the first argument unless the second is smaller.
RMin(a, b) == IF RLt(b, a) THEN b ELSE a

\* ------------------------------------------------------------------------
\* Bounds of the model and the configurations it is run on.

\* Number of step() calls the driver makes (range(100) in the program).
MaxSteps == 2

\* step() is run only while every count has a denominator of at most this, so
\* that the exact arithmetic of one more step stays within TLC's integers.
MaxDenominator == 256

\* Keys of the pool mapping, and a key that the mapping does not hold.
Keys == {0, 10}
OrderKeys == Keys \cup {20}
\* Longest vaccination_order tried.
MaxOrderLen == 2

\* vaccination_order: sequences of distinct keys.
Orders ==
    {o \in UNION {[1..n -> OrderKeys] : n \in 0..MaxOrderLen} :
        \A i, j \in DOMAIN o : i # j => o[i] # o[j]}

\* Starting populations <<vaccinated, unvaccinated>> of a band.
BandPopulations == {<<0, 0>>, <<0, 2>>, <<2, 0>>, <<2, 2>>}
\* Largest starting population of the whole simulation.
MaxPopulation == 4
\* initial_infection_rate <<vaccinated, unvaccinated>>.
InitialInfectionRates == {<<Zero, <<1, 2>> >>, << <<1, 2>>, Zero>>, << <<1, 2>>, <<1, 2>> >>}
\* death_rate <<vaccinated, unvaccinated>>.
DeathRates == {<<Zero, <<1, 2>> >>, << <<1, 2>>, <<1, 2>> >>}
IntraRates == {One}
InterRates == {Zero, One}
ContactRates == {Zero, One}
BaseRates == {One}
RecoveryRates == {Zero, <<1, 2>>}
VaxRates == {Zero, One, <<3, 1>>}

\* ------------------------------------------------------------------------
\* Pool

NewPool(intra_rate, inter_rate, death_rate, pop, initial_infection_rate) ==
    [intra_rate |-> intra_rate,
     inter_rate |-> inter_rate,
     death_rate |-> death_rate,
     uninfected |-> RMul(<<pop, 1>>, RSub(One, initial_infection_rate)),
     infected |-> RMul(<<pop, 1>>, initial_infection_rate),
     dead |-> Zero]

\* A mutant of Pool_get_population: the sentinel for an empty pool is left out.
Pool_get_population_NoSentinel(pool) == RAdd(pool.uninfected, pool.infected)

Pool_get_population(pool) ==
    IF RAdd(pool.infected, pool.uninfected) = Zero
    THEN One
    ELSE RAdd(pool.uninfected, pool.infected)

\* ------------------------------------------------------------------------
\* Pool_Group

NewPoolGroup(vaccinated, unvaccinated, min_age, contact_rate) ==
    [vaccinated |-> vaccinated,
     unvaccinated |-> unvaccinated,
     min_age |-> min_age,
     contact_rate |-> contact_rate]

\* ------------------------------------------------------------------------
\* Simulation

VARIABLES
    pools,              \* self.pools: key -> Pool_Group
    base_rate,          \* self.base_rate
    recovery_rate,      \* self.recovery_rate
    vaccination_order,  \* self.vaccination_order
    vaccination_rate,   \* self.vaccination_rate
    population,         \* self.population, set once by __init__
    pc,                 \* position of the driver inside step()
    idx,                \* index of the running for loop over vaccination_order
    vax_left,           \* vaccinate()'s local vax_left
    total_infected,     \* step()'s local total_infected
    err,                \* the exception that ended step(), "none" if none
    steps,              \* completed step() calls
    pre,                \* history: pools when the current step() was entered
    postvax,            \* history: pools when vaccinate() returned
    prerec,             \* history: per band, its group just before recover()
    calls               \* history: the calls made so far by the current step()

vars == <<pools, base_rate, recovery_rate, vaccination_order, vaccination_rate,
          population, pc, idx, vax_left, total_infected, err, steps,
          pre, postvax, prerec, calls>>

config == <<base_rate, recovery_rate, vaccination_order, vaccination_rate, population>>

\* What dict.get returns for a key the dict does not hold.
None == [none |-> TRUE]

PoolsGet(ps, key) == IF key \in DOMAIN ps THEN ps[key] ELSE None

RECURSIVE SumFn(_, _)
\* The for loop "ans += f[k]" over the keys ks.
SumFn(f, ks) ==
    IF ks = {} THEN Zero
    ELSE LET k == CHOOSE x \in ks : TRUE
         IN  RAdd(f[k], SumFn(f, ks \ {k}))

GetTotalInfections(ps) ==
    SumFn([k \in DOMAIN ps |->
              RAdd(ps[k].vaccinated.infected, ps[k].unvaccinated.infected)],
          DOMAIN ps)

GetTotalPopulation(ps) ==
    RAdd(SumFn([k \in DOMAIN ps |->
                   RAdd(ps[k].vaccinated.uninfected, ps[k].unvaccinated.uninfected)],
               DOMAIN ps),
         GetTotalInfections(ps))

GetTotalDeaths(ps) ==
    SumFn([k \in DOMAIN ps |->
              RAdd(ps[k].vaccinated.dead, ps[k].unvaccinated.dead)],
          DOMAIN ps)

\* ---- vaccinate() ----

\* A mutant of VaxAmount: the whole pool is vaccinated, whatever is left.
VaxAmount_IgnoresBudget(left, pool) == pool.unvaccinated.uninfected

\* vax_amount = min(vax_left, pool.unvaccinated.uninfected)
VaxAmount(left, pool) == RMin(left, pool.unvaccinated.uninfected)

\* A mutant of VaccinateBody: the doses are taken from the infected count.
VaccinateBody_FromInfected(ps, group, left) ==
    LET pool == PoolsGet(ps, group)
    IN  IF pool = None
        THEN [err |-> "AttributeError", pools |-> ps, vax_left |-> left]
        ELSE LET vax_amount == VaxAmount(left, pool)
             IN  [err |-> "none",
                  pools |-> [ps EXCEPT
                      ![group].unvaccinated.infected = RSub(@, vax_amount),
                      ![group].vaccinated.uninfected = RAdd(@, vax_amount)],
                  vax_left |-> RSub(left, vax_amount)]

\* A mutant of VaccinateBody: a key the mapping does not hold is passed over.
VaccinateBody_SkipsMissing(ps, group, left) ==
    LET pool == PoolsGet(ps, group)
    IN  IF pool = None
        THEN [err |-> "none", pools |-> ps, vax_left |-> left]
        ELSE LET vax_amount == VaxAmount(left, pool)
             IN  [err |-> "none",
                  pools |-> [ps EXCEPT
                      ![group].unvaccinated.uninfected = RSub(@, vax_amount),
                      ![group].vaccinated.uninfected = RAdd(@, vax_amount)],
                  vax_left |-> RSub(left, vax_amount)]

\* One iteration of vaccinate()'s loop, for the key group.
VaccinateBody(ps, group, left) ==
    LET pool == PoolsGet(ps, group)
    IN  IF pool = None
        THEN \* None has no attribute unvaccinated
             [err |-> "AttributeError", pools |-> ps, vax_left |-> left]
        ELSE LET vax_amount == VaxAmount(left, pool)
             IN  [err |-> "none",
                  pools |-> [ps EXCEPT
                      ![group].unvaccinated.uninfected = RSub(@, vax_amount),
                      ![group].vaccinated.uninfected = RAdd(@, vax_amount)],
                  vax_left |-> RSub(left, vax_amount)]

\* ---- infect_and_kill() ----

\* The three terms of the force of infection; its divisions raise
\* ZeroDivisionError on a zero divisor.
Infections(pool, contact_rate, cross_population, ti) ==
    LET pop == Pool_get_population(pool)
    IN  IF pop = Zero \/ population = Zero
        THEN [err |-> "ZeroDivisionError", value |-> Zero]
        ELSE LET percentage == RDiv(pool.uninfected, pop)
                 intra == RDiv(RMul(RMul(RMul(RMul(base_rate, pool.intra_rate),
                                    percentage), pool.infected), pop), population)
                 cross == RDiv(RMul(RMul(RMul(RMul(base_rate, contact_rate),
                                    percentage), cross_population), pop), population)
                 inter == RDiv(RMul(RMul(RMul(RMul(base_rate, pool.inter_rate),
                                    percentage),
                                    RSub(RSub(ti, pool.infected), cross_population)),
                                    pop), population)
             IN  [err |-> "none", value |-> RAdd(RAdd(intra, cross), inter)]

\* "update values": the deltas are applied to the pool of self.pools.
ApplyDeltas(ps, min_age, vaccinated, infections, deaths) ==
    IF vaccinated
    THEN [ps EXCEPT ![min_age].vaccinated.uninfected = RSub(@, infections),
                    ![min_age].vaccinated.infected = RAdd(@, RSub(infections, deaths)),
                    ![min_age].vaccinated.dead = RAdd(@, deaths)]
    ELSE [ps EXCEPT ![min_age].unvaccinated.uninfected = RSub(@, infections),
                    ![min_age].unvaccinated.infected = RAdd(@, RSub(infections, deaths)),
                    ![min_age].unvaccinated.dead = RAdd(@, deaths)]

\* A mutant of InfectAndKill: the total of the infected is summed again from
\* the pools at each call instead of being the caller's total_infected.
InfectAndKill_LiveTotal(ps, min_age, vaccinated, original_pools, ti) ==
    LET pool_group == PoolsGet(original_pools, min_age)
    IN  IF pool_group = None
        THEN [err |-> "AttributeError", pools |-> ps]
        ELSE LET pool == IF vaccinated THEN pool_group.vaccinated
                         ELSE pool_group.unvaccinated
                 deaths == RMul(pool.infected, pool.death_rate)
                 cross_population == IF vaccinated
                                     THEN pool_group.unvaccinated.infected
                                     ELSE pool_group.vaccinated.infected
                 inf == Infections(pool, pool_group.contact_rate, cross_population,
                                   GetTotalInfections(original_pools))
             IN  IF inf.err # "none"
                 THEN [err |-> inf.err, pools |-> ps]
                 ELSE [err |-> "none",
                       pools |-> ApplyDeltas(ps, min_age, vaccinated, inf.value, deaths)]

\* infect_and_kill(min_age, vaccinated, original_pools, total_infected) run on
\* self.pools = ps.
InfectAndKill(ps, min_age, vaccinated, original_pools, ti) ==
    LET pool_group == PoolsGet(original_pools, min_age)
    IN  IF pool_group = None
        THEN \* None has no attribute vaccinated / unvaccinated
             [err |-> "AttributeError", pools |-> ps]
        ELSE LET pool == IF vaccinated THEN pool_group.vaccinated
                         ELSE pool_group.unvaccinated
                 deaths == RMul(pool.infected, pool.death_rate)
                 cross_population == IF vaccinated
                                     THEN pool_group.unvaccinated.infected
                                     ELSE pool_group.vaccinated.infected
                 inf == Infections(pool, pool_group.contact_rate, cross_population, ti)
             IN  IF inf.err # "none"
                 THEN [err |-> inf.err, pools |-> ps]
                 ELSE [err |-> "none",
                       pools |-> ApplyDeltas(ps, min_age, vaccinated, inf.value, deaths)]

\* ---- recover() ----

\* recover(min_age) run on self.pools = ps.
Recover(ps, min_age) ==
    LET group == PoolsGet(ps, min_age)
    IN  IF group = None
        THEN [err |-> "AttributeError", pools |-> ps]
        ELSE LET unvaccinated_recoveries ==
                     RMul(group.unvaccinated.infected, recovery_rate)
                 \* group.vaccinated.uninfected = unvaccinated_recoveries
                 ps1 == [ps EXCEPT
                     ![min_age].unvaccinated.infected = RSub(@, unvaccinated_recoveries),
                     ![min_age].vaccinated.uninfected = unvaccinated_recoveries]
                 vaccinated_recoveries ==
                     RMul(ps1[min_age].vaccinated.infected, recovery_rate)
             IN  [err |-> "none",
                  pools |-> [ps1 EXCEPT
                      ![min_age].vaccinated.infected = RSub(@, vaccinated_recoveries),
                      ![min_age].vaccinated.uninfected = RAdd(@, vaccinated_recoveries)]]

\* ---- step()'s loop ----

RECURSIVE StepLoop(_, _, _)
\* The for loop of step() run on self.pools = ps over the keys of order, with
\* original_pools the same object as self.pools.
StepLoop(ps, order, ti) ==
    IF order = <<>> THEN [err |-> "none", pools |-> ps]
    ELSE LET age == Head(order)
             r1 == InfectAndKill(ps, age, TRUE, ps, ti)
             r2 == InfectAndKill(r1.pools, age, FALSE, r1.pools, ti)
             r3 == Recover(r2.pools, age)
         IN  IF r1.err # "none" THEN r1
             ELSE IF r2.err # "none" THEN r2
             ELSE IF r3.err # "none" THEN r3
             ELSE StepLoop(r3.pools, Tail(order), ti)

\* ------------------------------------------------------------------------
\* Construction: the module-level code that builds the pools and the
\* Simulation, over the configurations above.

MakePools(pops, iir, dr, intra, inter, contact) ==
    [k \in Keys |->
        NewPoolGroup(NewPool(intra, inter, dr[1], pops[k][1], iir[1]),
                     NewPool(intra, inter, dr[2], pops[k][2], iir[2]),
                     k, contact)]

Init ==
    /\ \E pops \in [Keys -> BandPopulations], iir \in InitialInfectionRates,
          dr \in DeathRates, intra \in IntraRates, inter \in InterRates,
          contact \in ContactRates :
          pools = MakePools(pops, iir, dr, intra, inter, contact)
    /\ base_rate \in BaseRates
    /\ recovery_rate \in RecoveryRates
    /\ vaccination_order \in Orders
    /\ vaccination_rate \in VaxRates
    /\ population = GetTotalPopulation(pools)
    \* self.population divides every force of infection: it is positive
    /\ population # Zero
    /\ RLeq(population, <<MaxPopulation, 1>>)
    /\ pc = "idle"
    /\ idx = 0
    /\ vax_left = Zero
    /\ total_infected = Zero
    /\ err = "none"
    /\ steps = 0
    /\ pre = pools
    /\ postvax = pools
    /\ prerec = pools
    /\ calls = <<>>

\* ------------------------------------------------------------------------
\* step()

\* Every count of ps is within the model's arithmetic for one more step.
Representable(ps) ==
    \A k \in DOMAIN ps :
        \A pool \in {ps[k].vaccinated, ps[k].unvaccinated} :
            /\ pool.uninfected[2] <= MaxDenominator
            /\ pool.infected[2] <= MaxDenominator
            /\ pool.dead[2] <= MaxDenominator

\* The driver calls step(); vaccinate() starts with the day's budget.
StepBegin ==
    /\ pc = "idle"
    /\ steps < MaxSteps
    /\ Representable(pools)
    /\ vax_left' = vaccination_rate
    /\ idx' = 1
    /\ pc' = IF vaccination_order = <<>> THEN "snapshot" ELSE "vaccinate"
    /\ pre' = pools
    /\ prerec' = pools
    /\ calls' = <<>>
    /\ UNCHANGED <<pools, config, total_infected, err, steps, postvax>>

\* One iteration of vaccinate()'s for loop.
VaccinateBand ==
    /\ pc = "vaccinate"
    /\ LET r == VaccinateBody(pools, vaccination_order[idx], vax_left)
       IN  /\ pools' = r.pools
           /\ vax_left' = r.vax_left
           /\ err' = r.err
           /\ IF r.err # "none"
              THEN pc' = "failed" /\ idx' = idx
              ELSE IF r.vax_left = Zero \/ idx = Len(vaccination_order)
                   THEN pc' = "snapshot" /\ idx' = idx
                   ELSE pc' = "vaccinate" /\ idx' = idx + 1
    /\ calls' = Append(calls, <<"vaccinate", vaccination_order[idx]>>)
    /\ UNCHANGED <<config, total_infected, steps, pre, postvax, prerec>>

\* original_pools = self.pools (the same object) and total_infected.
Snapshot ==
    /\ pc = "snapshot"
    /\ total_infected' = GetTotalInfections(pools)
    /\ postvax' = pools
    /\ prerec' = pools
    /\ idx' = 1
    /\ IF vaccination_order = <<>>
       THEN pc' = "idle" /\ steps' = steps + 1
       ELSE pc' = "ik_vaccinated" /\ steps' = steps
    /\ UNCHANGED <<pools, config, vax_left, err, pre, calls>>

\* self.infect_and_kill(age, True, original_pools, total_infected)
InfectAndKillVaccinated ==
    /\ pc = "ik_vaccinated"
    /\ LET r == InfectAndKill(pools, vaccination_order[idx], TRUE, pools, total_infected)
       IN  /\ pools' = r.pools
           /\ err' = r.err
           /\ pc' = IF r.err # "none" THEN "failed" ELSE "ik_unvaccinated"
    /\ calls' = Append(calls, <<"infect_and_kill_vaccinated", vaccination_order[idx]>>)
    /\ UNCHANGED <<config, idx, vax_left, total_infected, steps, pre, postvax, prerec>>

\* self.infect_and_kill(age, False, original_pools, total_infected)
InfectAndKillUnvaccinated ==
    /\ pc = "ik_unvaccinated"
    /\ LET r == InfectAndKill(pools, vaccination_order[idx], FALSE, pools, total_infected)
       IN  /\ pools' = r.pools
           /\ err' = r.err
           /\ pc' = IF r.err # "none" THEN "failed" ELSE "recover"
           /\ prerec' = IF r.err # "none" THEN prerec
                        ELSE [prerec EXCEPT ![vaccination_order[idx]] =
                                  r.pools[vaccination_order[idx]]]
    /\ calls' = Append(calls, <<"infect_and_kill_unvaccinated", vaccination_order[idx]>>)
    /\ UNCHANGED <<config, idx, vax_left, total_infected, steps, pre, postvax>>

\* self.recover(age), then the next iteration of step()'s loop or its return.
RecoverBand ==
    /\ pc = "recover"
    /\ LET r == Recover(pools, vaccination_order[idx])
       IN  /\ pools' = r.pools
           /\ err' = r.err
           /\ IF r.err # "none"
              THEN pc' = "failed" /\ idx' = idx /\ steps' = steps
              ELSE IF idx = Len(vaccination_order)
                   THEN pc' = "idle" /\ idx' = idx /\ steps' = steps + 1
                   ELSE pc' = "ik_vaccinated" /\ idx' = idx + 1 /\ steps' = steps
    /\ calls' = Append(calls, <<"recover", vaccination_order[idx]>>)
    /\ UNCHANGED <<config, vax_left, total_infected, pre, postvax, prerec>>

Next ==
    \/ StepBegin
    \/ VaccinateBand
    \/ Snapshot
    \/ InfectAndKillVaccinated
    \/ InfectAndKillUnvaccinated
    \/ RecoverBand

Spec == Init /\ [][Next]_vars

\* ------------------------------------------------------------------------
\* Properties

Bands == {vaccination_order[i] : i \in DOMAIN vaccination_order}
Statuses == {"vaccinated", "unvaccinated"}
PoolOf(group, status) ==
    IF status = "vaccinated" THEN group.vaccinated ELSE group.unvaccinated
StepReturned == pc = "idle" /\ steps >= 1
Positive(a) == a[1] > 0

\* C1: in step(), the infections and deaths applied to both pools of a band
\* are the formula evaluated on the pools as they were right after
\* vaccinate(): after both infect_and_kill calls of a band, each of its pools
\* is the post-vaccination pool changed by the deltas computed from the
\* post-vaccination pools.
C1_SnapshotIsolation ==
    pc = "recover" =>
        LET b == vaccination_order[idx]
            rv == InfectAndKill(postvax, b, TRUE, postvax, total_infected)
            ru == InfectAndKill(postvax, b, FALSE, postvax, total_infected)
        IN  /\ pools[b].vaccinated = rv.pools[b].vaccinated
            /\ pools[b].unvaccinated = ru.pools[b].unvaccinated

\* uninfected + infected + dead over all pools
TotalPeople(ps) == RAdd(GetTotalPopulation(ps), GetTotalDeaths(ps))

\* C2: after construction and after every step(), uninfected + infected +
\* dead summed over all pools equals Simulation.population.
C2_Conservation == pc = "idle" => TotalPeople(pools) = population

\* The orders that process the same keys as vaccination_order.
OrdersOfBands ==
    {o \in [DOMAIN vaccination_order -> Bands] :
        \A i, j \in DOMAIN o : i # j => o[i] # o[j]}

\* C3: from the pools as vaccinate() left them, the loop of step() gives the
\* same pools whatever the order in which it takes the bands.
C3_OrderIndependence ==
    (StepReturned /\ err = "none") =>
        \A o \in OrdersOfBands :
            StepLoop(postvax, o, total_infected) = [err |-> "none", pools |-> pools]

C3_Witness ==
    /\ StepReturned
    /\ Len(vaccination_order) = 2
    /\ \A b \in Bands : /\ pools[b].vaccinated # postvax[b].vaccinated
                        /\ pools[b].unvaccinated # postvax[b].unvaccinated
    /\ Positive(recovery_rate)

\* The doses moved by the vaccinate() call of the current step.
Doses ==
    SumFn([k \in DOMAIN pools |->
              RSub(pre[k].unvaccinated.uninfected, pools[k].unvaccinated.uninfected)],
          DOMAIN pools)

\* C4: when vaccinate() returns, the doses it moved are at most
\* vaccination_rate, and are exactly vaccination_rate unless every band of
\* vaccination_order is left with unvaccinated.uninfected = 0.
C4_VaccinationBudget ==
    pc = "snapshot" =>
        /\ RLeq(Doses, vaccination_rate)
        /\ \/ Doses = vaccination_rate
           \/ \A b \in Bands : /\ b \in DOMAIN pools
                               /\ pools[b].unvaccinated.uninfected = Zero

C4_Witness ==
    /\ pc = "snapshot"
    /\ Len(vaccination_order) = 2
    /\ Positive(Doses)
    /\ RLt(Doses, vaccination_rate)

\* C5: the dead count of every pool after a step() is at least what it was
\* before the step().
C5_MonotonicDeath ==
    pc = "idle" =>
        \A k \in DOMAIN pools : \A s \in Statuses :
            RLeq(PoolOf(pre[k], s).dead, PoolOf(pools[k], s).dead)

HasMissingBand == \E b \in Bands : b \notin DOMAIN pools
InStep == pc \in {"vaccinate", "snapshot", "ik_vaccinated", "ik_unvaccinated", "recover"}

\* C6 as stated: with a key of vaccination_order that the pool mapping does
\* not hold, step() fails with a ConfigurationError at the lookup and never
\* goes on past the missing band.
C6_ConfigurationError ==
    HasMissingBand =>
        /\ steps = 0
        /\ pc = "failed" => err = "ConfigurationError"
        /\ InStep => \A j \in 1..(idx - 1) : vaccination_order[j] \in DOMAIN pools

\* C6 as amended: with a key of vaccination_order that the pool mapping does
\* not hold, step() never returns; it fails with an AttributeError at the
\* first use of the missing group (in vaccinate() if the budget lasts until
\* its turn, otherwise in infect_and_kill()), no loop goes on past the
\* missing band, and no call works on a missing group.
C6_MissingBandFails ==
    HasMissingBand =>
        /\ steps = 0
        /\ pc = "failed" => /\ err = "AttributeError"
                            /\ vaccination_order[idx] \notin DOMAIN pools
        /\ InStep => \A j \in 1..(idx - 1) : vaccination_order[j] \in DOMAIN pools
        /\ pc \in {"ik_unvaccinated", "recover"} =>
               vaccination_order[idx] \in DOMAIN pools

C6_Witness ==
    /\ HasMissingBand
    /\ pc = "failed"
    /\ err = "AttributeError"
    /\ calls[Len(calls)][1] = "infect_and_kill_vaccinated"
    /\ pools # pre

ZeroPool(pool) == pool.uninfected = Zero /\ pool.infected = Zero

\* C7: a pool with uninfected = infected = 0 has get_population() = 1,
\* infect_and_kill raises no ZeroDivisionError, and infect_and_kill leaves
\* that pool as it was (its infections are 0).
C7_ZeroPopulationPool ==
    /\ \A k \in DOMAIN pools : \A s \in Statuses :
           ZeroPool(PoolOf(pools[k], s)) => Pool_get_population(PoolOf(pools[k], s)) = One
    /\ err # "ZeroDivisionError"
    /\ (pc = "ik_unvaccinated" /\ ZeroPool(postvax[vaccination_order[idx]].vaccinated)) =>
           pools[vaccination_order[idx]].vaccinated =
               postvax[vaccination_order[idx]].vaccinated
    /\ (pc = "recover" /\ ZeroPool(postvax[vaccination_order[idx]].unvaccinated)) =>
           pools[vaccination_order[idx]].unvaccinated =
               postvax[vaccination_order[idx]].unvaccinated

C7_Witness ==
    /\ pc = "recover"
    /\ ZeroPool(postvax[vaccination_order[idx]].unvaccinated)
    /\ Positive(pools[vaccination_order[idx]].vaccinated.infected)
    /\ Positive(pools[vaccination_order[idx]].vaccinated.uninfected)
    /\ \E k \in DOMAIN pools : k # vaccination_order[idx]
                               /\ Positive(pools[k].unvaccinated.infected)

\* C8: in a step(), no vaccinate iteration follows an infect_and_kill or a
\* recover, and no infect_and_kill follows a recover.
C8_PhasesInOrder ==
    \A i, j \in DOMAIN calls :
        i < j =>
            /\ calls[j][1] = "vaccinate" => calls[i][1] = "vaccinate"
            /\ calls[i][1] = "recover" => calls[j][1] = "recover"

\* The vaccinate() iterations the current step() has run, and for the j-th
\* of them the doses its band received and the budget that was left before it.
Vaccinated == {j \in DOMAIN calls : calls[j][1] = "vaccinate"}
DoseAt(j) ==
    RSub(pre[vaccination_order[j]].unvaccinated.uninfected,
         pools[vaccination_order[j]].unvaccinated.uninfected)
BudgetBefore(j) ==
    RSub(vaccination_rate, SumFn([i \in 1..(j - 1) |-> DoseAt(i)], 1..(j - 1)))

C10_RecoveryOfEveryBand ==
    (StepReturned /\ err = "none") =>
        \A k \in DOMAIN pools :
            LET g == prerec[k]
                ur == RMul(g.unvaccinated.infected, recovery_rate)
                vr == RMul(g.vaccinated.infected, recovery_rate)
            IN  /\ pools[k].unvaccinated.infected = RSub(g.unvaccinated.infected, ur)
                /\ pools[k].vaccinated.infected = RSub(g.vaccinated.infected, vr)
                /\ pools[k].vaccinated.uninfected =
                       RAdd(g.vaccinated.uninfected, RAdd(ur, vr))

====
